---- MODULE Spec2Model ----
(***************************************************************************)
(* Model of library/netmaker_management.py: an Ansible module reconciling  *)
(* Netmaker networks and external clients against the Netmaker API.        *)
(*                                                                         *)
(* Python values are encoded as records of one shape so that any two can   *)
(* be compared; dicts are functions whose domain is the set of their keys. *)
(***************************************************************************)
EXTENDS Integers, Sequences, FiniteSets, TLC

\* ------------------------------------------------------------ Python values

NoneV == [k |-> "none", n |-> 0, s |-> "", l |-> <<>>]
StrV(x) == [k |-> "str", n |-> 0, s |-> x, l |-> <<>>]
IntV(x) == [k |-> "int", n |-> x, s |-> "", l |-> <<>>]
BoolV(b) == [k |-> "bool", n |-> IF b THEN 1 ELSE 0, s |-> "", l |-> <<>>]
ListV(x) == [k |-> "list", n |-> 0, s |-> "", l |-> x]

EmptyDict == [f \in {} |-> NoneV]

Range(q) == {q[i] : i \in DOMAIN q}

\* Python ==: bool is an int (True == 1, False == 0); otherwise same type, same value.
PyEq(x, y) ==
    IF x.k \in {"int", "bool"} /\ y.k \in {"int", "bool"} THEN x.n = y.n ELSE x = y

\* Python `x in [..]`
PyIn(x, lst) == \E i \in DOMAIN lst : PyEq(x, lst[i])

\* Python truthiness of a value
Truthy(v) ==
    CASE v.k = "none" -> FALSE
      [] v.k \in {"int", "bool"} -> v.n # 0
      [] v.k = "str" -> v.s # ""
      [] v.k = "list" -> v.l # <<>>

\* dict.get(field, default)
DictGet(d, field, default) == IF field \in DOMAIN d THEN d[field] ELSE default

\* set(value or []) for a value that is a list or None
SetOf(v) == IF v.k = "list" THEN Range(v.l) ELSE {}

\* ------------------------------------------------------ equality evaluators

comparable_fields ==
    {"addressrange", "addressrange6", "defaultextclientdns", "defaultinterface",
     "defaultpostdown", "defaultpostup", "defaultkeepalive", "defaultmtu"}

\* mutant: no default for any field
field_defaults_none == [f \in {} |-> StrV("")]

field_defaults == ("defaultpostdown" :> StrV("")) @@ ("defaultpostup" :> StrV(""))

\* mutant: a field the desired data omits is compared all the same
NetworkFieldOkUnskipped(existing, desired, field) ==
    PyEq(DictGet(existing, field, NoneV), DictGet(desired, field, NoneV))

\* one iteration of the loop of networks_equal: TRUE = continue, FALSE = return False
NetworkFieldOk(existing, desired, field) ==
    IF field \notin DOMAIN desired THEN TRUE
    ELSE IF field \notin DOMAIN existing /\ field \notin DOMAIN field_defaults THEN TRUE
    ELSE LET existing_value == DictGet(existing, field, DictGet(field_defaults, field, NoneV))
             desired_value == desired[field]
         IN  IF desired_value.k = "bool"
             THEN LET ev == IF existing_value = NoneV
                            THEN DictGet(field_defaults, field, BoolV(FALSE))
                            ELSE existing_value
                      existing_value_bool ==
                          PyIn(ev, <<StrV("yes"), StrV("true"), BoolV(TRUE), IntV(1)>>)
                  IN  existing_value_bool = (desired_value.n = 1)
             ELSE IF desired_value = StrV("") /\ PyIn(existing_value, <<NoneV, StrV("")>>)
             THEN TRUE
             ELSE PyEq(existing_value, desired_value)

networks_equal(existing, desired) ==
    \A field \in comparable_fields : NetworkFieldOk(existing, desired, field)

extclient_comparable_fields == {"dns", "extraallowedips", "enabled", "postup", "postdown"}

\* mutant: lists compared as lists
ExtclientFieldOkOrdered(existing, desired, field) ==
    IF field \notin DOMAIN desired THEN TRUE
    ELSE IF desired[field] = StrV("")
            /\ PyIn(DictGet(existing, field, NoneV), <<NoneV, StrV("")>>)
    THEN TRUE
    ELSE PyEq(DictGet(existing, field, NoneV), desired[field])

\* mutant: lists as sets, everything else by != alone
ExtclientFieldOkStrict(existing, desired, field) ==
    IF field \notin DOMAIN desired THEN TRUE
    ELSE IF desired[field].k = "list"
    THEN SetOf(DictGet(existing, field, NoneV)) = SetOf(desired[field])
    ELSE PyEq(DictGet(existing, field, NoneV), desired[field])

\* one iteration of the loop of extclients_equal
ExtclientFieldOk(existing, desired, field) ==
    IF field \notin DOMAIN desired THEN TRUE
    ELSE LET existing_value == DictGet(existing, field, NoneV)
             desired_value == desired[field]
         IN  IF desired_value.k = "list"
             THEN SetOf(existing_value) = SetOf(desired_value)
             ELSE IF desired_value = StrV("") /\ PyIn(existing_value, <<NoneV, StrV("")>>)
             THEN TRUE
             ELSE PyEq(existing_value, desired_value)

extclients_equal(existing, desired) ==
    \A field \in extclient_comparable_fields : ExtclientFieldOk(existing, desired, field)

\* mutant: the overlay the wrong way round, existing values kept over desired ones
MergeUpdateExistingWins(existing, desired) ==
    [f \in DOMAIN existing \cup DOMAIN desired |->
        IF f \in DOMAIN existing THEN existing[f] ELSE desired[f]]

\* existing.copy(); update_data.update(desired)
MergeUpdate(existing, desired) ==
    [f \in DOMAIN existing \cup DOMAIN desired |->
        IF f \in DOMAIN desired THEN desired[f] ELSE existing[f]]

\* mutant: the overlay written into the existing record itself, no copy taken
UpdateDataInPlace(existing, desired) ==
    [existing |-> MergeUpdate(existing, desired), desired |-> desired,
     update_data |-> MergeUpdate(existing, desired)]

\* update_data = existing.copy(); update_data.update(desired): the three dicts
\* as they are after the two statements
UpdateData(existing, desired) ==
    [existing |-> existing, desired |-> desired,
     update_data |-> MergeUpdate(existing, desired)]

\* ---------------------------------------------------------- JSON / transport

\* a decoded JSON body: a dict, a list of dicts, or no body at all
JDict(d) == [t |-> "dict", d |-> d, l |-> <<>>]
JList(l) == [t |-> "list", d |-> EmptyDict, l |-> l]
NoBody == [t |-> "nobody", d |-> EmptyDict, l |-> <<>>]
\* content that response.json() cannot decode
TextBody == [t |-> "text", d |-> EmptyDict, l |-> <<>>]

\* what NetmakerAPI._request hands back: None, True, decoded JSON, or a raised Exception
RNone == [kind |-> "none", json |-> NoBody, err |-> <<>>]
RTrue == [kind |-> "true", json |-> NoBody, err |-> <<>>]
RJson(j) == [kind |-> "json", json |-> j, err |-> <<>>]
RRaise(e) == [kind |-> "raise", json |-> NoBody, err |-> e]

\* Python truthiness of a _request result
ResultTruthy(r) ==
    CASE r.kind = "none" -> FALSE
      [] r.kind = "true" -> TRUE
      [] r.kind = "json" ->
            IF r.json.t = "dict" THEN DOMAIN r.json.d # {} ELSE r.json.l # <<>>
      [] r.kind = "raise" -> FALSE

Url(endpoint) == <<"/api">> \o endpoint

\* mutant: only status 404 is read as "not found"
_request_only_404(endpoint, response) ==
    IF response.status = 404 THEN RNone
    ELSE IF response.status = 204 THEN RTrue
    ELSE IF response.status >= 400
    THEN RRaise(<<"API request failed: ", "HTTP error for url: ">> \o Url(endpoint)
                \o (IF response.body.t = "dict" /\ "Message" \in DOMAIN response.body.d
                    THEN <<" - ", response.body.d["Message"].s>>
                    ELSE <<>>))
    ELSE IF response.body.t # "nobody" THEN RJson(response.body)
    ELSE RTrue

\* NetmakerAPI._request, from the response on: status codes, then the body
_request(endpoint, response) ==
    IF response.status = 404 THEN RNone
    ELSE IF response.status = 204 THEN RTrue
    ELSE IF /\ response.status = 500
            /\ response.body.t = "dict"
            /\ DictGet(response.body.d, "Message", NoneV) = StrV("no result found")
    THEN RNone
    ELSE IF response.status >= 400
    THEN RRaise(<<"API request failed: ", "HTTP error for url: ">> \o Url(endpoint)
                \o (IF response.body.t = "dict" /\ "Message" \in DOMAIN response.body.d
                    THEN <<" - ", response.body.d["Message"].s>>
                    ELSE <<>>))
    ELSE IF response.body.t = "text"
    THEN RRaise(<<"API request failed: ", "response body is not JSON">>)
    ELSE IF response.body.t # "nobody" THEN RJson(response.body)
    ELSE RTrue

\* ------------------------------------------------------------ the remote API
\* The Netmaker server, as the reconcilers assume it: it stores what it is sent.
\* remote.networks: netid -> network; remote.extclients: netid -> list of clients;
\* remote.nodes: netid -> list of nodes.  A missing key is a resource the server
\* does not know.

NotFound(quirk) ==
    IF quirk = "404"
    THEN [status |-> 404, body |-> JDict("Message" :> StrV("not found"))]
    ELSE [status |-> 500, body |-> JDict("Message" :> StrV("no result found"))]

ServerError == [status |-> 500, body |-> JDict("Message" :> StrV("internal error"))]

Without(f, key) == [x \in DOMAIN f \ {key} |-> f[x]]

ClientIdOf(client) == DictGet(client, "clientid", NoneV)

ServeNetworks(remote, quirk, call) ==
    LET nets == remote.networks
        id == IF Len(call.endpoint) = 2 THEN call.endpoint[2] ELSE call.data["netid"].s
    IN  CASE call.method = "POST" ->
               [remote |-> [remote EXCEPT !.networks = (id :> call.data) @@ nets],
                response |-> [status |-> 200, body |-> JDict(call.data)]]
          [] call.method # "POST" /\ id \notin DOMAIN nets ->
               [remote |-> remote, response |-> NotFound(quirk)]
          [] call.method = "GET" /\ id \in DOMAIN nets ->
               [remote |-> remote, response |-> [status |-> 200, body |-> JDict(nets[id])]]
          [] call.method = "PUT" /\ id \in DOMAIN nets ->
               [remote |-> [remote EXCEPT !.networks = (id :> call.data) @@ nets],
                response |-> [status |-> 200, body |-> JDict(call.data)]]
          [] call.method = "DELETE" /\ id \in DOMAIN nets ->
               [remote |-> [remote EXCEPT !.networks = Without(nets, id)],
                response |-> [status |-> 204, body |-> NoBody]]

ServeNodes(remote, quirk, call) ==
    LET net == call.endpoint[2]
    IN  IF net \in DOMAIN remote.nodes
        THEN [remote |-> remote,
              response |-> [status |-> 200, body |-> JList(remote.nodes[net])]]
        ELSE [remote |-> remote, response |-> NotFound(quirk)]

ServeExtclients(remote, quirk, call) ==
    LET net == call.endpoint[2]
        known == net \in DOMAIN remote.extclients
        lst == IF known THEN remote.extclients[net] ELSE <<>>
        target == IF Len(call.endpoint) = 3 THEN StrV(call.endpoint[3]) ELSE NoneV
        has == \E i \in DOMAIN lst : ClientIdOf(lst[i]) = target
    IN  CASE call.method = "GET" /\ known ->
               [remote |-> remote, response |-> [status |-> 200, body |-> JList(lst)]]
          [] call.method = "GET" /\ ~known ->
               [remote |-> remote, response |-> NotFound(quirk)]
          [] call.method = "POST" ->
               [remote |-> [remote EXCEPT !.extclients =
                               (net :> Append(lst, call.data)) @@ remote.extclients],
                response |-> [status |-> 200, body |-> JDict(call.data)]]
          [] call.method \in {"PUT", "DELETE"} /\ ~has ->
               [remote |-> remote, response |-> NotFound(quirk)]
          [] call.method = "PUT" /\ has ->
               [remote |-> [remote EXCEPT !.extclients[net] =
                               [i \in DOMAIN lst |->
                                   IF ClientIdOf(lst[i]) = target THEN call.data ELSE lst[i]]],
                response |-> [status |-> 200, body |-> JDict(call.data)]]
          [] call.method = "DELETE" /\ has ->
               [remote |-> [remote EXCEPT !.extclients[net] =
                               SelectSeq(lst, LAMBDA c : ClientIdOf(c) # target)],
                response |-> [status |-> 204, body |-> NoBody]]

\* POST /users/adm/authenticate.  The body {"Response": {"AuthToken": t}} is kept
\* flat: key "Response" for the outer object, "Response.AuthToken" for the token in it.
ServeAuthenticate(remote, auth) ==
    [remote |-> remote,
     response |->
        CASE auth = "token" ->
               [status |-> 200,
                body |-> JDict(("Response" :> NoneV) @@ ("Response.AuthToken" :> StrV("jwt")))]
          [] auth = "notoken" ->
               [status |-> 200, body |-> JDict("Response" :> NoneV)]
          [] auth = "rejected" ->
               [status |-> 401, body |-> JDict("Message" :> StrV("unauthorized"))]]

Serve(remote, env, call) ==
    CASE call.endpoint[1] = "users" -> ServeAuthenticate(remote, env.auth)
      [] call.endpoint[1] = "networks" -> ServeNetworks(remote, env.quirk, call)
      [] call.endpoint[1] = "nodes" -> ServeNodes(remote, env.quirk, call)
      [] call.endpoint[1] = "extclients" -> ServeExtclients(remote, env.quirk, call)

\* the rest of _request once the server has answered: st is the invocation so far,
\* the remote and the calls issued with the status and Message they were answered
Answered(st, call, served) ==
    [st |-> [remote |-> served.remote,
             calls |-> Append(st.calls,
                              [method |-> call.method, endpoint |-> call.endpoint,
                               data |-> call.data, token |-> call.token,
                               status |-> served.response.status,
                               message |-> DictGet(served.response.body.d, "Message",
                                                   StrV("")).s])],
     r |-> _request(call.endpoint, served.response)]

\* requests.request(...): env.fault is the number of the call (0: none) that the
\* server answers with an error
Send(st, env, call) ==
    IF env.fault = Len(st.calls) + 1
    THEN Answered(st, call, [remote |-> st.remote, response |-> ServerError])
    ELSE Answered(st, call, Serve(st.remote, env, call))

Request(st, env, token, method, endpoint, data) ==
    Send(st, env, [method |-> method, endpoint |-> endpoint, data |-> data, token |-> token])

\* ------------------------------------------------------------- NetmakerAPI

\* authenticate, from the result of its POST on
TokenOf(q) ==
    IF q.r.kind = "raise" THEN q
    ELSE IF \/ ~ResultTruthy(q.r)
            \/ "Response" \notin DOMAIN q.r.json.d
            \/ "Response.AuthToken" \notin DOMAIN q.r.json.d
    THEN [st |-> q.st, r |-> RRaise(<<"Authentication failed: No token in response">>)]
    ELSE [st |-> q.st, r |-> RJson(JDict("token" :> q.r.json.d["Response.AuthToken"]))]

authenticate(st, env, username, password) ==
    TokenOf(Request(st, env, "", "POST", <<"users", "adm", "authenticate">>,
                    ("username" :> username) @@ ("password" :> password)))

get_network(st, env, token, network_id) ==
    Request(st, env, token, "GET", <<"networks", network_id>>, EmptyDict)

create_network(st, env, token, network_data) ==
    Request(st, env, token, "POST", <<"networks">>, network_data)

\* mutant: the update addressed to the collection, not to the network
update_network_no_id(st, env, token, network_id, network_data) ==
    Request(st, env, token, "PUT", <<"networks">>, network_data)

update_network(st, env, token, network_id, network_data) ==
    Request(st, env, token, "PUT", <<"networks", network_id>>, network_data)

\* mutant: a deletion that is retried
delete_network_twice(st, env, token, network_id) ==
    Request(Request(st, env, token, "DELETE", <<"networks", network_id>>, EmptyDict).st,
            env, token, "DELETE", <<"networks", network_id>>, EmptyDict)

delete_network(st, env, token, network_id) ==
    Request(st, env, token, "DELETE", <<"networks", network_id>>, EmptyDict)

list_nodes(st, env, token, network_id) ==
    Request(st, env, token, "GET", <<"nodes", network_id>>, EmptyDict)

\* mutant: the last flagged node instead of the first
LastGateway(nodes) ==
    LET hits == {i \in DOMAIN nodes :
                    \/ Truthy(DictGet(nodes[i], "isingressgateway", NoneV))
                    \/ Truthy(DictGet(nodes[i], "is_gw", NoneV))}
    IN  IF hits = {} THEN 0 ELSE CHOOSE i \in hits : \A j \in hits : i >= j

\* the scan of find_ingress_gateway: index of the first node flagged as ingress
\* gateway, 0 when no node is
FirstGateway(nodes) ==
    LET hits == {i \in DOMAIN nodes :
                    \/ Truthy(DictGet(nodes[i], "isingressgateway", NoneV))
                    \/ Truthy(DictGet(nodes[i], "is_gw", NoneV))}
    IN  IF hits = {} THEN 0 ELSE CHOOSE i \in hits : \A j \in hits : i <= j

\* find_ingress_gateway, from the result of list_nodes on
PickGateway(q, network_id) ==
    IF q.r.kind = "raise" THEN q
    ELSE IF ~ResultTruthy(q.r)
    THEN [st |-> q.st,
          r |-> RRaise(<<"No nodes found in network '", network_id, "'">>)]
    ELSE IF FirstGateway(q.r.json.l) = 0
    THEN [st |-> q.st,
          r |-> RRaise(<<"No ingress gateway found in network '", network_id, "'">>)]
    ELSE [st |-> q.st,
          r |-> RJson(JDict("id" :> q.r.json.l[FirstGateway(q.r.json.l)]["id"]))]

find_ingress_gateway(st, env, token, network_id) ==
    PickGateway(list_nodes(st, env, token, network_id), network_id)

\* result if result else []
OrEmptyList(q) ==
    IF q.r.kind = "raise" \/ ResultTruthy(q.r) THEN q
    ELSE [st |-> q.st, r |-> RJson(JList(<<>>))]

list_extclients(st, env, token, network_id) ==
    OrEmptyList(Request(st, env, token, "GET", <<"extclients", network_id>>, EmptyDict))

\* the loop of get_extclient over the listed clients
FindClient(q, client_id) ==
    LET clients == q.r.json.l
        hits == {i \in DOMAIN clients : PyEq(ClientIdOf(clients[i]), StrV(client_id))}
    IN  IF q.r.kind = "raise" THEN q
        ELSE IF hits = {} THEN [st |-> q.st, r |-> RNone]
        ELSE [st |-> q.st,
              r |-> RJson(JDict(clients[CHOOSE i \in hits : \A j \in hits : i <= j]))]

get_extclient(st, env, token, network_id, client_id) ==
    FindClient(list_extclients(st, env, token, network_id), client_id)

\* mutant: the creation addressed to the client, like update and delete
create_extclient_by_client(st, env, token, network_id, gateway_id, client_data) ==
    Request(st, env, token, "POST",
            <<"extclients", network_id, client_data["clientid"].s>>, client_data)

create_extclient(st, env, token, network_id, gateway_id, client_data) ==
    Request(st, env, token, "POST", <<"extclients", network_id, gateway_id>>, client_data)

update_extclient(st, env, token, network_id, client_id, client_data) ==
    Request(st, env, token, "PUT", <<"extclients", network_id, client_id>>, client_data)

\* mutant: the two path segments swapped
delete_extclient_swapped(st, env, token, network_id, client_id) ==
    Request(st, env, token, "DELETE", <<"extclients", client_id, network_id>>, EmptyDict)

delete_extclient(st, env, token, network_id, client_id) ==
    Request(st, env, token, "DELETE", <<"extclients", network_id, client_id>>, EmptyDict)

\* ------------------------------------------------------------- reconcilers

\* a reconciler returning its result dict, or leaving by an exception
Ret(st, changed, resource, msg) ==
    [st |-> st, raised |-> FALSE, err |-> <<>>,
     result |-> [changed |-> changed, resource |-> resource, msg |-> msg]]

Exc(st, err) ==
    [st |-> st, raised |-> TRUE, err |-> err,
     result |-> [changed |-> FALSE, resource |-> RNone, msg |-> <<>>]]

\* mutant: whatever the call returned is reported as the resource
ChangedWithResult(q, with_resource, msg) ==
    IF q.r.kind = "raise" THEN Exc(q.st, q.r.err)
    ELSE Ret(q.st, TRUE, q.r, msg)

\* a changing cell after its call q: the exception, or changed = True with the
\* result of the call as resource (a deletion reports no resource)
Changed(q, with_resource, msg) ==
    IF q.r.kind = "raise" THEN Exc(q.st, q.r.err)
    ELSE Ret(q.st, TRUE, IF with_resource THEN q.r ELSE RNone, msg)

\* manage_network, from the result g of the lookup on
ReconcileNetwork(check_mode, g, env, token, name, state, network_data) ==
    IF g.r.kind = "raise" THEN Exc(g.st, g.r.err)
    ELSE IF state = "present"
    THEN IF ResultTruthy(g.r)
         THEN IF networks_equal(g.r.json.d, network_data)
              THEN Ret(g.st, FALSE, g.r,
                       <<"Network '", name, "' already exists with desired configuration">>)
              ELSE IF check_mode
              THEN Ret(g.st, TRUE, RNone,
                       <<"Network '", name, "' would be updated (check mode)">>)
              ELSE Changed(update_network(g.st, env, token, name,
                                          UpdateData(g.r.json.d, network_data).update_data),
                           TRUE, <<"Network '", name, "' updated">>)
         ELSE IF check_mode
         THEN Ret(g.st, TRUE, RNone,
                  <<"Network '", name, "' would be created (check mode)">>)
         ELSE Changed(create_network(g.st, env, token, network_data),
                      TRUE, <<"Network '", name, "' created">>)
    ELSE IF state = "absent"
    THEN IF ResultTruthy(g.r)
         THEN IF check_mode
              THEN Ret(g.st, TRUE, RNone,
                       <<"Network '", name, "' would be deleted (check mode)">>)
              ELSE Changed(delete_network(g.st, env, token, name),
                           FALSE, <<"Network '", name, "' deleted">>)
         ELSE Ret(g.st, FALSE, RNone, <<"Network '", name, "' does not exist">>)
    ELSE Ret(g.st, FALSE, RNone, <<>>)

manage_network(check_mode, st, env, token, name, state, network_data) ==
    ReconcileNetwork(check_mode, get_network(st, env, token, name), env, token, name, state,
                     network_data)

\* mutant: the creation goes ahead whatever the resolver said
CreateThroughRegardless(f, env, token, name, network, client_data) ==
    Changed(create_extclient(f.st, env, token, network,
                             IF f.r.kind = "raise" THEN "auto" ELSE f.r.json.d["id"].s,
                             client_data),
            TRUE, <<"External client '", name, "' created">>)

\* the creation of an external client once the gateway f is known
CreateThrough(f, env, token, name, network, client_data) ==
    IF f.r.kind = "raise" THEN Exc(f.st, f.r.err)
    ELSE Changed(create_extclient(f.st, env, token, network, f.r.json.d["id"].s, client_data),
                 TRUE, <<"External client '", name, "' created">>)

\* manage_extclient, from the result g of the lookup on
ReconcileExtclient(check_mode, g, env, token, name, network, ingress_gateway_id, state, client_data) ==
    IF g.r.kind = "raise" THEN Exc(g.st, g.r.err)
    ELSE IF state = "present"
    THEN IF ResultTruthy(g.r)
         THEN IF extclients_equal(g.r.json.d, client_data)
              THEN Ret(g.st, FALSE, g.r,
                       <<"External client '", name,
                         "' already exists with desired configuration">>)
              ELSE IF check_mode
              THEN Ret(g.st, TRUE, RNone,
                       <<"External client '", name, "' would be updated (check mode)">>)
              ELSE Changed(update_extclient(g.st, env, token, network, name,
                                            UpdateData(g.r.json.d, client_data).update_data),
                           TRUE, <<"External client '", name, "' updated">>)
         ELSE IF check_mode
         THEN Ret(g.st, TRUE, RNone,
                  <<"External client '", name, "' would be created (check mode)">>)
         ELSE IF ingress_gateway_id = "auto"
         THEN CreateThrough(find_ingress_gateway(g.st, env, token, network),
                            env, token, name, network, client_data)
         ELSE CreateThrough([st |-> g.st, r |-> RJson(JDict("id" :> StrV(ingress_gateway_id)))],
                            env, token, name, network, client_data)
    ELSE IF state = "absent"
    THEN IF ResultTruthy(g.r)
         THEN IF check_mode
              THEN Ret(g.st, TRUE, RNone,
                       <<"External client '", name, "' would be deleted (check mode)">>)
              ELSE Changed(delete_extclient(g.st, env, token, network, name),
                           FALSE, <<"External client '", name, "' deleted">>)
         ELSE Ret(g.st, FALSE, RNone, <<"External client '", name, "' does not exist">>)
    ELSE Ret(g.st, FALSE, RNone, <<>>)

manage_extclient(check_mode, st, env, token, name, network, ingress_gateway_id, state, client_data) ==
    ReconcileExtclient(check_mode, get_extclient(st, env, token, network, name), env, token,
                       name, network, ingress_gateway_id, state, client_data)

\* ---------------------------------------------------------------------- main

network_params ==
    {"addressrange", "addressrange6", "defaultextclientdns", "defaultinterface",
     "defaultpostdown", "defaultpostup", "defaultkeepalive", "defaultmtu", "islocal"}

extclient_params == {"dns", "extraallowedips", "enabled", "postup", "postdown"}

\* the names of argument_spec
ArgumentNames ==
    {"resource_type", "name", "network", "ingress_gateway_id", "state", "base_url",
     "master_key", "username", "password", "validate_certs"}
    \cup network_params \cup extclient_params

\* the defaults of argument_spec
ArgumentDefaults ==
    ("ingress_gateway_id" :> StrV("auto")) @@ ("state" :> StrV("present"))
    @@ ("username" :> StrV("oriol")) @@ ("validate_certs" :> BoolV(TRUE))
    @@ ("islocal" :> BoolV(FALSE)) @@ ("enabled" :> BoolV(TRUE))

\* module.params: what the caller set, else the default of the option, else None
module_params(args) ==
    [p \in ArgumentNames |->
        IF p \in DOMAIN args THEN args[p] ELSE DictGet(ArgumentDefaults, p, NoneV)]

\* network_data / client_data: the identifier, then every option that is not None
BuildData(idkey, name, options, params) ==
    [f \in {idkey} \cup {p \in options : params[p] # NoneV} |->
        IF f = idkey THEN StrV(name) ELSE params[f]]

\* the desired state main builds: network_data = {'netid': name, ...} or
\* client_data = {'clientid': name, ...}
DesiredData(params) ==
    IF params["resource_type"].s = "network"
    THEN BuildData("netid", params["name"].s, network_params, params)
    ELSE BuildData("clientid", params["name"].s, extclient_params, params)

\* module.exit_json(**result) / module.fail_json(msg=...)
Outcome(m, resource_type) ==
    [failed |-> m.raised,
     changed |-> m.result.changed,
     resource |-> m.result.resource,
     msg |-> IF m.raised
             THEN <<"Error managing Netmaker ", resource_type, ": ">> \o m.err
             ELSE m.result.msg,
     calls |-> m.st.calls,
     remote |-> m.st.remote]

\* main once the token is there (a: the master key, or the result of authenticate)
Dispatch(a, params, check_mode, env) ==
    IF a.r.kind = "raise" THEN Outcome(Exc(a.st, a.r.err), params["resource_type"].s)
    ELSE IF params["resource_type"].s = "network"
    THEN Outcome(manage_network(check_mode, a.st, env, a.r.json.d["token"].s,
                                params["name"].s, params["state"].s, DesiredData(params)),
                 params["resource_type"].s)
    ELSE Outcome(manage_extclient(check_mode, a.st, env, a.r.json.d["token"].s,
                                  params["name"].s, params["network"].s,
                                  params["ingress_gateway_id"].s, params["state"].s,
                                  DesiredData(params)),
                 params["resource_type"].s)

\* mutant: the password is tried whether or not a master key is there
MainWithPasswordFirst(params, check_mode, remote, env) ==
    Dispatch(authenticate([remote |-> remote, calls |-> <<>>], env,
                          params["username"], params["password"]),
             params, check_mode, env)

\* main after AnsibleModule(...) has filled module.params
MainWith(params, check_mode, remote, env) ==
    IF Truthy(params["master_key"])
    THEN Dispatch([st |-> [remote |-> remote, calls |-> <<>>],
                   r |-> RJson(JDict("token" :> params["master_key"]))],
                  params, check_mode, env)
    ELSE Dispatch(authenticate([remote |-> remote, calls |-> <<>>], env,
                               params["username"], params["password"]),
                  params, check_mode, env)

main(args, check_mode, remote, env) == MainWith(module_params(args), check_mode, remote, env)

\* ------------------------------------------------------- bounded inputs

MaxFault == 4

\* invocations of the module in one behaviour
MaxRuns == 2

\* what the server may do during one invocation: how it says "not found", how it
\* answers authenticate, and which call (0: none) it answers with an error
Envs == [quirk : {"404", "500"}, auth : {"token", "notoken", "rejected"}, fault : 0..MaxFault]

\* the choices that can make a difference to a task: authenticate is called only
\* without a master key, and a failed authentication ends the invocation
EnvsFor(task) ==
    {env \in Envs :
        /\ "master_key" \in DOMAIN task => env.auth = "token"
        /\ env.auth # "token" => env.quirk = "404" /\ env.fault = 0}

Dict1(k1, v1) == k1 :> v1
Dict2(k1, v1, k2, v2) == (k1 :> v1) @@ (k2 :> v2)

\* networks the server may hold under net1 before the first invocation
ExistingNetworks ==
    { Dict1("netid", StrV("net1")),
      ("netid" :> StrV("net1")) @@ ("addressrange" :> StrV("10.0.0.0/24"))
          @@ ("defaultmtu" :> IntV(1420)) @@ ("islocal" :> BoolV(FALSE)),
      ("netid" :> StrV("net1")) @@ ("addressrange" :> StrV("10.0.1.0/24"))
          @@ ("defaultpostup" :> StrV("up")) @@ ("islocal" :> BoolV(TRUE)) }

OtherNetwork == Dict2("netid", StrV("net2"), "addressrange", StrV("10.9.0.0/24"))

\* network options a task may set
NetworkOptions ==
    { EmptyDict,
      Dict2("addressrange", StrV("10.0.0.0/24"), "defaultmtu", IntV(1420)),
      Dict1("addressrange", StrV("10.0.1.0/24")),
      Dict1("defaultpostup", StrV("")),
      Dict1("islocal", BoolV(TRUE)) }

\* clients the server may hold under dev1 before the first invocation
ExistingClients ==
    { ("clientid" :> StrV("dev1")) @@ ("enabled" :> BoolV(TRUE))
          @@ ("extraallowedips" :> ListV(<<"10.1.0.0/24", "10.2.0.0/24">>))
          @@ ("address" :> StrV("10.0.0.5")),
      ("clientid" :> StrV("dev1")) @@ ("enabled" :> BoolV(FALSE))
          @@ ("dns" :> StrV("1.1.1.1")) }

OtherClient == Dict2("clientid", StrV("dev2"), "enabled", BoolV(TRUE))

ClientLists ==
    {<<>>, <<OtherClient>>} \cup {<<OtherClient, c>> : c \in ExistingClients}

\* external-client options a task may set
ExtclientOptions ==
    { EmptyDict,
      Dict1("enabled", BoolV(FALSE)),
      Dict1("extraallowedips", ListV(<<"10.2.0.0/24", "10.1.0.0/24">>)),
      Dict2("dns", StrV(""), "enabled", BoolV(TRUE)) }

Node(id, flags) == ("id" :> StrV(id)) @@ flags

NodeLists ==
    { <<>>,
      <<Node("a", Dict1("isingressgateway", BoolV(FALSE)))>>,
      <<Node("a", Dict1("isingressgateway", BoolV(FALSE))),
        Node("b", Dict1("is_gw", BoolV(TRUE))),
        Node("c", Dict1("isingressgateway", BoolV(TRUE)))>> }

Present == Dict1("state", StrV("present"))
Absent == Dict1("state", StrV("absent"))
MasterKey == Dict1("master_key", StrV("mk"))
Password == Dict1("password", StrV("pw"))

NetworkTask ==
    ("resource_type" :> StrV("network")) @@ ("name" :> StrV("net1"))
    @@ ("base_url" :> StrV("https://nm"))

\* tasks on network net1: every option set with state present, deletion, the
\* default state, and authentication by password
NetworkTasks ==
    {NetworkTask @@ MasterKey @@ Present @@ opts : opts \in NetworkOptions}
    \cup {NetworkTask @@ MasterKey @@ Absent,
          NetworkTask @@ MasterKey @@ Absent @@ Dict1("addressrange", StrV("10.0.1.0/24")),
          NetworkTask @@ MasterKey,
          NetworkTask @@ Password @@ Present,
          NetworkTask @@ Password @@ Absent}

ExtclientTask ==
    ("resource_type" :> StrV("extclient")) @@ ("name" :> StrV("dev1"))
    @@ ("network" :> StrV("iot")) @@ ("base_url" :> StrV("https://nm"))

\* tasks on external client dev1 of network iot: every option set with state present,
\* with the gateway left to the default (auto) or named; deletion; password
ExtclientTasks ==
    {ExtclientTask @@ MasterKey @@ Present @@ gw @@ opts :
        gw \in {EmptyDict, Dict1("ingress_gateway_id", StrV("gw9"))},
        opts \in ExtclientOptions}
    \cup {ExtclientTask @@ MasterKey @@ Absent,
          ExtclientTask @@ MasterKey @@ Absent @@ Dict1("enabled", BoolV(FALSE)),
          ExtclientTask @@ MasterKey @@ Dict1("ingress_gateway_id", StrV("auto")),
          ExtclientTask @@ Password @@ Present,
          ExtclientTask @@ Password @@ Absent}

BaseNetworks == Dict1("net2", OtherNetwork)
BaseExtclients == Dict1("lab", <<Dict1("clientid", StrV("dev1"))>>)

InitialRemotes ==
    { [networks |-> nets @@ BaseNetworks, extclients |-> BaseExtclients,
       nodes |-> Dict1("iot", <<Node("a", Dict1("isingressgateway", BoolV(TRUE)))>>)] :
        nets \in {EmptyDict} \cup {Dict1("net1", n) : n \in ExistingNetworks} }
    \cup
    { [networks |-> BaseNetworks, extclients |-> cl @@ BaseExtclients, nodes |-> nd] :
        cl \in {EmptyDict} \cup {Dict1("iot", l) : l \in ClientLists},
        nd \in {EmptyDict} \cup {Dict1("iot", l) : l \in NodeLists} }

\* -------------------------------------------------------------- state machine

VARIABLES
    remote,      \* what the Netmaker server holds
    pc,          \* "idle": no module process; "done": main has called exit_json/fail_json
    args,        \* the task's arguments of the invocation that is done
    check_mode,  \* module.check_mode of that invocation
    before,      \* the remote when that invocation started
    out,         \* what that invocation reported, and the calls it issued
    runs,        \* invocations started so far
    step,        \* where an evaluation of an equality evaluator stands ("off": none)
    cur,         \* the existing record handed to the evaluator
    want,        \* the desired data handed to the evaluator
    verdict,     \* what the evaluator returned
    update,      \* the dicts after update_data was built
    reply,       \* an endpoint and the response requests.request got from it
    returned,    \* what _request made of that response
    procs        \* module processes running at the same time, each with its position

vars ==
    <<remote, pc, args, check_mode, before, out, runs, step, cur, want, verdict, update,
      reply, returned, procs>>

sideVars == <<reply, returned, procs>>

NoReply == [endpoint |-> <<>>, response |-> [status |-> 0, body |-> NoBody]]
Pending == [kind |-> "pending", json |-> NoBody, err |-> <<>>]

\* no response is being looked at on its own, and no processes run side by side
SideOff ==
    /\ reply = NoReply
    /\ returned = Pending
    /\ procs = <<>>

evalVars == <<step, cur, want, verdict, update>>

NoUpdate == [existing |-> EmptyDict, desired |-> EmptyDict, update_data |-> EmptyDict]

\* no evaluator is being looked at on its own
EvalOff ==
    /\ step = "off"
    /\ cur = EmptyDict
    /\ want = EmptyDict
    /\ verdict = FALSE
    /\ update = NoUpdate

NoRemote == [networks |-> EmptyDict, extclients |-> EmptyDict, nodes |-> EmptyDict]

NoOutcome ==
    [failed |-> FALSE, changed |-> FALSE, resource |-> RNone, msg |-> <<>>,
     calls |-> <<>>, remote |-> NoRemote]

Init ==
    /\ remote \in InitialRemotes
    /\ pc = "idle"
    /\ args = EmptyDict
    /\ check_mode = FALSE
    /\ before = NoRemote
    /\ out = NoOutcome
    /\ runs = 0
    /\ EvalOff
    /\ SideOff

\* mutant: check mode not honoured
RunIgnoringCheckMode(task, cm, env) ==
    /\ pc = "idle"
    /\ runs < MaxRuns
    /\ runs' = runs + 1
    /\ out' = main(task, FALSE, remote, env)
    /\ remote' = out'.remote
    /\ args' = task
    /\ check_mode' = cm
    /\ before' = remote
    /\ pc' = "done"
    /\ UNCHANGED evalVars
    /\ UNCHANGED sideVars

\* main() under AnsibleModule(..., supports_check_mode=True)
Run(task, cm, env) ==
    /\ pc = "idle"
    /\ runs < MaxRuns
    /\ runs' = runs + 1
    /\ out' = main(task, cm, remote, env)
    /\ remote' = out'.remote
    /\ args' = task
    /\ check_mode' = cm
    /\ before' = remote
    /\ pc' = "done"
    /\ UNCHANGED evalVars
    /\ UNCHANGED sideVars

\* one run of the module on a network task
InvokeNetwork ==
    \E task \in NetworkTasks, cm \in BOOLEAN : \E env \in EnvsFor(task) : Run(task, cm, env)

\* one run of the module on an external-client task
InvokeExtclient ==
    \E task \in ExtclientTasks, cm \in BOOLEAN : \E env \in EnvsFor(task) : Run(task, cm, env)

\* the module process ends; nothing of it survives but what the server holds
Exit ==
    /\ pc = "done"
    /\ pc' = "idle"
    /\ args' = EmptyDict
    /\ check_mode' = FALSE
    /\ before' = NoRemote
    /\ out' = NoOutcome
    /\ UNCHANGED <<remote, runs>>
    /\ UNCHANGED evalVars
    /\ UNCHANGED sideVars

Next == InvokeNetwork \/ InvokeExtclient \/ Exit

Spec == Init /\ [][Next]_vars

\* ------------------------------------------------ views of a finished invocation

Done == pc = "done"
Params == module_params(args)
ResourceType == Params["resource_type"].s
Name == Params["name"].s
Network == Params["network"].s
State == Params["state"].s
GatewayParam == Params["ingress_gateway_id"].s

IsMutating(c) == c.method \in {"POST", "PUT", "DELETE"} /\ c.endpoint[1] # "users"
Mutating(calls) == SelectSeq(calls, IsMutating)

\* the resource the invocation names, as a server state holds it
ClientsOf(rem) == IF Network \in DOMAIN rem.extclients THEN rem.extclients[Network] ELSE <<>>
ExistsIn(rem) ==
    IF ResourceType = "network"
    THEN Name \in DOMAIN rem.networks
    ELSE \E i \in DOMAIN ClientsOf(rem) : ClientIdOf(ClientsOf(rem)[i]) = StrV(Name)
StoredIn(rem) ==
    IF ResourceType = "network"
    THEN rem.networks[Name]
    ELSE LET l == ClientsOf(rem)
         IN  l[CHOOSE i \in DOMAIN l : ClientIdOf(l[i]) = StrV(Name)]

\* a server that answers every call without error, saying "not found" as q
Healthy(q) == [quirk |-> q, auth |-> "token", fault |-> 0]

\* ------------------------------------------------------------------- claims

\* C1 (idempotence): once a present-state invocation that is not a dry run has
\* completed without failure, the same task run again on what the server now holds
\* issues no mutating call, however the server answers, and where it completes it
\* reports changed = false.
C1_Idempotence ==
    (Done /\ ~check_mode /\ ~out.failed /\ State = "present") =>
        \A env \in EnvsFor(args) :
            LET second == main(args, FALSE, remote, env)
            IN  /\ Mutating(second.calls) = <<>>
                /\ second.remote = remote
                /\ ~second.failed => ~second.changed

\* C1 witness: a completed present-state run that did change the server.
C1_Witness ==
    /\ Done /\ ~check_mode /\ ~out.failed /\ State = "present"
    /\ out.changed /\ Len(Mutating(out.calls)) = 1
    /\ ExistsIn(before)
    /\ ResourceType = "extclient"

\* the resource options the task itself sets
OptionsSet == DOMAIN args \cap (IF ResourceType = "network" THEN network_params ELSE extclient_params)

\* a stored value agrees with a desired one: lists as sets, "" like an absent value
Agrees(stored, field, desired_value) ==
    LET v == DictGet(stored, field, NoneV)
    IN  IF desired_value.k = "list" THEN SetOf(v) = SetOf(desired_value)
        ELSE \/ PyEq(v, desired_value)
             \/ desired_value = StrV("") /\ v = NoneV

\* C2 (convergence): after a present-state invocation that is not a dry run and
\* completes without failure, the server holds the resource and every option the task
\* set has the value the task gave it.  The code does not ensure this.
C2_Convergence ==
    (Done /\ ~check_mode /\ ~out.failed /\ State = "present") =>
        /\ ExistsIn(remote)
        /\ \A f \in OptionsSet : Agrees(StoredIn(remote), f, args[f])

\* C3 (absence convergence): an absent-state invocation on a resource the server does
\* not hold reports changed = false and "does not exist" without a mutating call; one
\* that is not a dry run, on a resource the server holds, issues exactly one DELETE,
\* for that resource, reports changed = true, and a lookup afterwards finds nothing.
C3_AbsenceConvergence ==
    (Done /\ ~out.failed /\ State = "absent") =>
        /\ ~ExistsIn(before) =>
              /\ ~out.changed
              /\ out.msg[Len(out.msg)] = "' does not exist"
              /\ Mutating(out.calls) = <<>>
              /\ remote = before
        /\ (ExistsIn(before) /\ ~check_mode) =>
              /\ out.changed
              /\ Len(Mutating(out.calls)) = 1
              /\ Mutating(out.calls)[1].method = "DELETE"
              /\ Mutating(out.calls)[1].endpoint =
                    IF ResourceType = "network"
                    THEN <<"networks", Name>>
                    ELSE <<"extclients", Network, Name>>
              /\ ~ExistsIn(remote)
              /\ \A q \in {"404", "500"} :
                    LET st == [remote |-> remote, calls |-> <<>>]
                        lookup == IF ResourceType = "network"
                                  THEN get_network(st, Healthy(q), "mk", Name)
                                  ELSE get_extclient(st, Healthy(q), "mk", Network, Name)
                    IN  lookup.r = RNone

\* C3 witness: an external client that existed has been deleted.
C3_Witness ==
    /\ Done /\ ~out.failed /\ State = "absent" /\ ~check_mode
    /\ ExistsIn(before) /\ ResourceType = "extclient" /\ out.changed

\* C4 (dry run): in check mode no POST, PUT or DELETE on a resource is issued and the
\* server holds afterwards exactly what it held before.
C4_DryRunNoMutation ==
    (Done /\ check_mode) => Mutating(out.calls) = <<>> /\ remote = before

\* C4 witness: a dry run that reports a deletion it did not perform.
C4_Witness ==
    /\ Done /\ check_mode /\ ~out.failed /\ out.changed
    /\ State = "absent" /\ ExistsIn(before)

\* C5 (dry-run prediction): what a dry run reports as changed is what the same task,
\* run for real from the same server state against a server that answers every call,
\* reports.  The code does not ensure this: the dry run of a creation never
\* looks for the gateway.
C5_DryRunPrediction ==
    (Done /\ check_mode /\ ~out.failed) =>
        \A q \in {"404", "500"} :
            LET real == main(args, FALSE, before, Healthy(q))
            IN  ~real.failed /\ real.changed = out.changed

\* C6 (desired state holds only what the caller set): besides the identifier, every
\* key of network_data / client_data is an option of the task, and so is every key of
\* a payload sent to create the resource.  The code does not ensure this.
C6_OnlyExplicitFields ==
    Done =>
        /\ DOMAIN DesiredData(Params) \subseteq {"netid", "clientid"} \cup DOMAIN args
        /\ \A i \in DOMAIN out.calls :
              (IsMutating(out.calls[i]) /\ out.calls[i].method = "POST") =>
                  DOMAIN out.calls[i].data \subseteq {"netid", "clientid"} \cup DOMAIN args

\* the calls of an invocation without what the server answered
Sent(calls) ==
    [i \in DOMAIN calls |->
        [method |-> calls[i].method, endpoint |-> calls[i].endpoint,
         data |-> calls[i].data, token |-> calls[i].token]]

\* what an invocation did and reported, apart from the status codes it was answered
Behaviour(o) ==
    [failed |-> o.failed, changed |-> o.changed, resource |-> o.resource, msg |-> o.msg,
     sent |-> Sent(o.calls), remote |-> o.remote]

\* the position of the lookup among the calls (authenticate, if any, comes first)
LookupIndex == IF "master_key" \in DOMAIN args THEN 1 ELSE 2

\* the call the server answered with an error, 0 if none
FaultAt(calls) ==
    IF \E i \in DOMAIN calls : calls[i].message = "internal error"
    THEN CHOOSE i \in DOMAIN calls : calls[i].message = "internal error"
    ELSE 0

LookupNotFound ==
    /\ Len(out.calls) >= LookupIndex
    /\ \/ out.calls[LookupIndex].status = 404
       \/ /\ out.calls[LookupIndex].status = 500
          /\ out.calls[LookupIndex].message = "no result found"

\* C7 (not-found normalization): an invocation whose lookup was answered "not found",
\* by 404 or by 500 {"Message": "no result found"}, does not fail at the lookup, and
\* does and reports exactly what it does and reports when the server uses the other
\* of the two answers.
C7_NotFoundNormalization ==
    (Done /\ LookupNotFound) =>
        /\ out.failed => Len(out.calls) > LookupIndex
        /\ \A q \in {"404", "500"} :
              LET env == [quirk |-> q, auth |-> "token", fault |-> FaultAt(out.calls)]
              IN  Behaviour(main(args, check_mode, before, env)) = Behaviour(out)

\* C7 witness: a lookup answered 500 "no result found", then a network created.
C7_Witness ==
    /\ Done /\ LookupNotFound /\ out.calls[LookupIndex].status = 500
    /\ ResourceType = "network" /\ ~out.failed /\ out.changed /\ ~check_mode

\* a word of the message, by the literal the code formats
MsgWord(piece) ==
    CASE piece = "' already exists with desired configuration" -> "already exists"
      [] piece \in {"' updated", "' would be updated (check mode)"} -> "updated"
      [] piece \in {"' created", "' would be created (check mode)"} -> "created"
      [] piece \in {"' deleted", "' would be deleted (check mode)"} -> "deleted"
      [] piece = "' does not exist" -> "does not exist"
      [] OTHER -> ""

\* exactly one mutating call, of this method, to this endpoint
OneCall(method, endpoint) ==
    /\ Len(Mutating(out.calls)) = 1
    /\ Mutating(out.calls)[1].method = method
    /\ Mutating(out.calls)[1].endpoint = endpoint

\* the decision table of the network reconciler; issued: whether the call of a
\* changing cell is issued
NetworkTable(issued) ==
    LET exists == ExistsIn(before)
        desired == DesiredData(Params)
        equal == exists /\ networks_equal(before.networks[Name], desired)
        word == MsgWord(out.msg[Len(out.msg)])
        call(method, endpoint) ==
            IF issued THEN OneCall(method, endpoint) ELSE Mutating(out.calls) = <<>>
    IN  /\ Len(out.calls) - Len(Mutating(out.calls)) = LookupIndex
        /\ out.calls[LookupIndex].method = "GET"
        /\ out.calls[LookupIndex].endpoint = <<"networks", Name>>
        /\ CASE State = "present" /\ exists /\ equal ->
                   /\ Mutating(out.calls) = <<>>
                   /\ ~out.changed
                   /\ out.resource = RJson(JDict(before.networks[Name]))
                   /\ word = "already exists"
             [] State = "present" /\ exists /\ ~equal ->
                   /\ call("PUT", <<"networks", Name>>)
                   /\ out.changed
                   /\ word = "updated"
             [] State = "present" /\ ~exists ->
                   /\ call("POST", <<"networks">>)
                   /\ issued => /\ Mutating(out.calls)[1].data = desired
                                /\ "netid" \in DOMAIN Mutating(out.calls)[1].data
                                /\ Mutating(out.calls)[1].data["netid"] = StrV(Name)
                   /\ out.changed
                   /\ word = "created"
             [] State = "absent" /\ exists ->
                   /\ call("DELETE", <<"networks", Name>>)
                   /\ out.changed
                   /\ word = "deleted"
             [] State = "absent" /\ ~exists ->
                   /\ Mutating(out.calls) = <<>>
                   /\ ~out.changed
                   /\ word = "does not exist"

\* C8 as stated: every network invocation that completes falls in one row of the
\* table, each changing row with its one call.  Dry runs do not.
C8_DecisionTableAsStated ==
    (Done /\ ResourceType = "network" /\ ~out.failed) => NetworkTable(TRUE)

\* C8 (network decision table, amended): a network invocation that completes falls in
\* one row of the table; when it is not a dry run each changing row issues its one
\* call (update, create with the desired data including netid, delete); in a dry run
\* the rows report the same changed value and outcome word but issue no call.
C8_DecisionTable ==
    (Done /\ ResourceType = "network" /\ ~out.failed) =>
        /\ NetworkTable(~check_mode)
        /\ check_mode => (out.changed => out.resource = RNone)

\* C8 witness: an existing network that differed has been updated.
C8_Witness ==
    /\ Done /\ ResourceType = "network" /\ ~out.failed /\ ~check_mode
    /\ State = "present" /\ ExistsIn(before)
    /\ ~networks_equal(before.networks[Name], DesiredData(Params))
    /\ OneCall("PUT", <<"networks", Name>>)

\* the node list the server held for the network of the invocation
NodesBefore == IF Network \in DOMAIN before.nodes THEN before.nodes[Network] ELSE <<>>

IsNodesCall(c) == c.endpoint[1] = "nodes"

\* C9 (external-client creation scoping): a creation is addressed to (network,
\* gateway); with ingress_gateway_id 'auto' the call just before it lists the nodes of
\* the network and the gateway is the one the resolver finds in that list, with any
\* other value no node listing is issued and the gateway is that value; update and
\* delete are addressed to (network, clientId); nodes are listed only when a real run
\* creates with 'auto'.
C9_CreationScoping ==
    (Done /\ ResourceType = "extclient") =>
        LET calls == out.calls
            createCell == ~check_mode /\ State = "present" /\ ~ExistsIn(before)
        IN  /\ \A i \in DOMAIN calls :
                  (IsMutating(calls[i]) /\ calls[i].method = "POST") =>
                      /\ createCell
                      /\ IF GatewayParam = "auto"
                         THEN /\ i > 1
                              /\ IsNodesCall(calls[i - 1])
                              /\ FirstGateway(NodesBefore) # 0
                              /\ calls[i].endpoint =
                                    <<"extclients", Network,
                                      NodesBefore[FirstGateway(NodesBefore)]["id"].s>>
                         ELSE /\ \A j \in DOMAIN calls : ~IsNodesCall(calls[j])
                              /\ calls[i].endpoint = <<"extclients", Network, GatewayParam>>
            /\ \A i \in DOMAIN calls :
                  (IsMutating(calls[i]) /\ calls[i].method \in {"PUT", "DELETE"}) =>
                      calls[i].endpoint = <<"extclients", Network, Name>>
            /\ \A i \in DOMAIN calls :
                  IsNodesCall(calls[i]) =>
                      /\ createCell /\ GatewayParam = "auto"
                      /\ calls[i].method = "GET"
                      /\ calls[i].endpoint = <<"nodes", Network>>
            /\ (createCell /\ ~out.failed) =>
                  /\ Len(Mutating(calls)) = 1
                  /\ Mutating(calls)[1].method = "POST"
                  /\ GatewayParam = "auto" => \E i \in DOMAIN calls : IsNodesCall(calls[i])

\* C9 witness: a client created with 'auto' through the second node of three.
C9_Witness ==
    /\ Done /\ ResourceType = "extclient" /\ ~out.failed /\ GatewayParam = "auto"
    /\ Len(Mutating(out.calls)) = 1
    /\ Mutating(out.calls)[1].endpoint = <<"extclients", "iot", "b">>

\* ------------------------------------------------ the gateway resolver alone

\* longest node list tried
MaxNodes == 3

\* the ingress-gateway flags a node may carry, under either name
NodeFlags ==
    { EmptyDict,
      Dict1("isingressgateway", BoolV(FALSE)),
      Dict1("isingressgateway", BoolV(TRUE)),
      Dict1("is_gw", BoolV(TRUE)),
      Dict2("isingressgateway", BoolV(FALSE), "is_gw", IntV(1)),
      Dict2("isingressgateway", StrV(""), "is_gw", NoneV) }

NodeId(i) == <<"a", "b", "c", "d", "e", "f">>[i]

\* every list of up to MaxNodes nodes, named a, b, c, ... in listed order
AllNodeLists ==
    UNION { { [i \in 1..n |-> Node(NodeId(i), flags[i])] : flags \in [1..n -> NodeFlags] } :
            n \in 0..MaxNodes }

InitGateway ==
    /\ remote \in { [networks |-> BaseNetworks, extclients |-> BaseExtclients, nodes |-> nd] :
                      nd \in {EmptyDict} \cup {Dict1("iot", l) : l \in AllNodeLists} }
    /\ pc = "idle"
    /\ args = EmptyDict
    /\ check_mode = FALSE
    /\ before = NoRemote
    /\ out = NoOutcome
    /\ runs = 0
    /\ EvalOff
    /\ SideOff

\* what the resolver returned or raised, as an outcome
Resolved(f) ==
    [failed |-> f.r.kind = "raise", changed |-> FALSE, resource |-> f.r, msg |-> f.r.err,
     calls |-> f.st.calls, remote |-> f.st.remote]

\* api.find_ingress_gateway(network) on network iot, as manage_extclient calls it
ResolveGateway ==
    /\ pc = "idle"
    /\ \E q \in {"404", "500"} :
          out' = Resolved(find_ingress_gateway([remote |-> remote, calls |-> <<>>],
                                               Healthy(q), "mk", "iot"))
    /\ remote' = out'.remote
    /\ args' = ExtclientTask @@ MasterKey
    /\ before' = remote
    /\ pc' = "done"
    /\ UNCHANGED evalVars
    /\ UNCHANGED sideVars
    /\ UNCHANGED <<check_mode, runs>>

NextGateway == ResolveGateway \/ Exit

SpecGateway == InitGateway /\ [][NextGateway]_vars

\* a node is flagged as ingress gateway under either field name
Flagged(node) ==
    \/ Truthy(DictGet(node, "isingressgateway", NoneV))
    \/ Truthy(DictGet(node, "is_gw", NoneV))

ExampleNodes ==
    << Node("a", Dict1("isingressgateway", BoolV(FALSE))),
       Node("b", Dict1("isingressgateway", BoolV(TRUE))),
       Node("c", Dict1("isingressgateway", BoolV(TRUE))) >>

\* C10 (gateway resolution): on an empty or unknown node list the resolver fails with
\* "No nodes found", on a list without a flagged node with "No ingress gateway found";
\* otherwise it returns the id of the flagged node of smallest index, b on the list
\* [a: false, b: true, c: true]; the node list is left as it was.
C10_GatewayResolution ==
    Done =>
        LET nodes == NodesBefore
        IN  /\ remote = before
            /\ IF nodes = <<>>
               THEN out.failed /\ out.msg = <<"No nodes found in network '", "iot", "'">>
               ELSE IF \A i \in DOMAIN nodes : ~Flagged(nodes[i])
               THEN /\ out.failed
                    /\ out.msg = <<"No ingress gateway found in network '", "iot", "'">>
               ELSE /\ ~out.failed
                    /\ \E i \in DOMAIN nodes :
                          /\ Flagged(nodes[i])
                          /\ \A j \in 1..(i - 1) : ~Flagged(nodes[j])
                          /\ out.resource = RJson(JDict("id" :> nodes[i]["id"]))
            /\ nodes = ExampleNodes => out.resource = RJson(JDict("id" :> StrV("b")))

\* C10 witness: the resolver has answered b on the list [a: false, b: true, c: true].
C10_Witness ==
    /\ Done /\ NodesBefore = ExampleNodes
    /\ out.resource = RJson(JDict("id" :> StrV("b")))

\* ------------------------------------------------------- failures and ordering

\* the node listing of the invocation was issued and answered
NodesListed ==
    \E i \in DOMAIN out.calls :
        IsNodesCall(out.calls[i]) /\ out.calls[i].message # "internal error"

\* C11 (resolution failure is terminal): when the node listing of an invocation is
\* answered and the network has no node, or none flagged as ingress gateway, the
\* invocation fails with the resolver's message naming the network, the listing is
\* its last call, no mutating call is issued, the server holds what it held, and
\* neither a change nor a resource is reported.
C11_ResolutionFailureTerminal ==
    (Done /\ ResourceType = "extclient" /\ NodesListed
          /\ \A i \in DOMAIN NodesBefore : ~Flagged(NodesBefore[i])) =>
        /\ out.failed
        /\ IsNodesCall(out.calls[Len(out.calls)])
        /\ Mutating(out.calls) = <<>>
        /\ remote = before
        /\ ~out.changed
        /\ out.resource = RNone
        /\ out.msg = <<"Error managing Netmaker ", "extclient", ": ">>
                     \o <<(IF NodesBefore = <<>>
                           THEN "No nodes found in network '"
                           ELSE "No ingress gateway found in network '"),
                          Network, "'">>

\* C11 witness: nodes were listed, there is one, and it is no ingress gateway.
C11_Witness ==
    /\ Done /\ ResourceType = "extclient" /\ NodesListed
    /\ NodesBefore # <<>>
    /\ \A i \in DOMAIN NodesBefore : ~Flagged(NodesBefore[i])
    /\ out.failed

\* C12 (failure messages): the message of every failed invocation holds the resource
\* type and the name of the resource.  The code does not ensure this: the message is
\* "Error managing Netmaker <resource_type>: <exception>", and the name is in it only
\* when the exception happens to carry it.
C12_FailureNamesResource ==
    (Done /\ out.failed) =>
        /\ \E i \in DOMAIN out.msg : out.msg[i] = ResourceType
        /\ \E i \in DOMAIN out.msg : out.msg[i] = Name

\* C13 (authentication ordering): with a master key no call to authenticate is issued
\* and every call carries the key as token; without one the first call, and only the
\* first, is the POST to authenticate with the username and password, and every later
\* call carries the token the server gave; a server answering authenticate without
\* the token, or refusing it, makes the invocation fail with that single call.
C13_AuthenticationOrdering ==
    Done =>
        LET calls == out.calls
        IN  IF "master_key" \in DOMAIN args
            THEN \A i \in DOMAIN calls :
                    calls[i].endpoint[1] # "users" /\ calls[i].token = args["master_key"].s
            ELSE /\ Len(calls) >= 1
                 /\ calls[1].method = "POST"
                 /\ calls[1].endpoint = <<"users", "adm", "authenticate">>
                 /\ calls[1].token = ""
                 /\ calls[1].data = ("username" :> Params["username"])
                                    @@ ("password" :> Params["password"])
                 /\ \A i \in 2..Len(calls) :
                       calls[i].endpoint[1] # "users" /\ calls[i].token = "jwt"
                 /\ \A a \in {"notoken", "rejected"} :
                       LET o == main(args, check_mode, before,
                                     [quirk |-> "404", auth |-> a, fault |-> 0])
                       IN  /\ o.failed
                           /\ Len(o.calls) = 1
                           /\ o.remote = before
                           /\ a = "notoken" =>
                                 o.msg = <<"Error managing Netmaker ", ResourceType, ": ",
                                           "Authentication failed: No token in response">>

\* C13 witness: authenticate was answered without the token and nothing followed.
C13_Witness ==
    /\ Done /\ "master_key" \notin DOMAIN args
    /\ out.failed /\ Len(out.calls) = 1
    /\ out.calls[1].status = 200
    /\ out.msg[Len(out.msg)] = "Authentication failed: No token in response"

\* the call was answered with a failure: _request raised
CallFailed(c) ==
    /\ c.status >= 400
    /\ c.status # 404
    /\ ~(c.status = 500 /\ c.message = "no result found")

\* C19 (call ordering): after authenticate, if any, the first call of an invocation
\* is the GET that looks the resource up; what follows is at most one listing of nodes
\* and then at most one mutating call, nothing else and in that order; a call that
\* fails is the last call of the invocation, and the invocation fails.
C19_CallOrdering ==
    Done =>
        LET calls == out.calls
        IN  /\ \A i \in DOMAIN calls :
                  CallFailed(calls[i]) => i = Len(calls) /\ out.failed
            /\ \A i \in DOMAIN calls : i < LookupIndex => calls[i].endpoint[1] = "users"
            /\ Len(calls) >= LookupIndex =>
                  /\ calls[LookupIndex].method = "GET"
                  /\ calls[LookupIndex].endpoint =
                        IF ResourceType = "network"
                        THEN <<"networks", Name>>
                        ELSE <<"extclients", Network>>
            /\ \A i \in DOMAIN calls :
                  i > LookupIndex => IsNodesCall(calls[i]) \/ IsMutating(calls[i])
            /\ Cardinality({i \in DOMAIN calls : IsNodesCall(calls[i])}) <= 1
            /\ Len(Mutating(calls)) <= 1
            /\ \A i, j \in DOMAIN calls :
                  (IsNodesCall(calls[i]) /\ IsMutating(calls[j])) => i < j
            /\ Len(calls) <= LookupIndex + 2

\* C19 witness: authenticate, lookup, node listing, then a creation that fails.
C19_Witness ==
    /\ Done /\ Len(out.calls) = 4 /\ out.failed
    /\ IsNodesCall(out.calls[3])
    /\ out.calls[4].method = "POST" /\ CallFailed(out.calls[4])

\* ------------------------------------------------ the equality evaluators alone

\* longest list of extra allowed IPs a task asks for
MaxList == 3

Optional(field, values) == {EmptyDict} \cup {Dict1(field, v) : v \in values}

ListsUpTo(n) == UNION { [1..k -> {"10.1.0.0/24", "10.2.0.0/24"}] : k \in 0..n }

\* network records a lookup may return: each field missing, null, empty or set
EvalNetworks ==
    { a @@ b @@ c @@ d :
        a \in Optional("addressrange", {NoneV, StrV(""), StrV("10.0.0.0/24")}),
        b \in Optional("defaultpostup", {NoneV, StrV(""), StrV("up")}),
        c \in Optional("defaultmtu", {IntV(1420)}),
        d \in Optional("islocal", {BoolV(TRUE)}) }

\* network_data as main builds it from options of type str, int and bool, an option
\* that is None left out
EvalNetworkData ==
    { a @@ b @@ c @@ d :
        a \in Optional("addressrange", {StrV(""), StrV("10.0.0.0/24"), StrV("10.0.1.0/24")}),
        b \in Optional("defaultpostup", {StrV(""), StrV("up")}),
        c \in Optional("defaultmtu", {IntV(1420), IntV(1280)}),
        d \in Optional("islocal", {BoolV(FALSE)}) }

ServerAssigned == Dict2("clientid", StrV("dev1"), "address", StrV("10.0.0.5"))

\* pairs (existing client, client_data): dns and enabled varied, then the lists
EvalExtclientPairs ==
    { << ServerAssigned @@ a @@ b, c @@ d >> :
        a \in Optional("dns", {NoneV, StrV(""), StrV("1.1.1.1")}),
        b \in Optional("enabled", {NoneV, StrV("yes"), StrV("true"), StrV("no"),
                                   BoolV(TRUE), BoolV(FALSE), IntV(1), IntV(0)}),
        c \in Optional("dns", {StrV(""), StrV("1.1.1.1")}),
        d \in Optional("enabled", {BoolV(TRUE), BoolV(FALSE)}) }
    \cup
    { << ServerAssigned @@ a @@ b, c @@ d >> :
        a \in Optional("extraallowedips", {NoneV} \cup {ListV(l) : l \in ListsUpTo(2)}),
        b \in Optional("enabled", {BoolV(TRUE)}),
        c \in {Dict1("extraallowedips", ListV(l)) : l \in ListsUpTo(MaxList)},
        d \in Optional("enabled", {BoolV(TRUE)}) }

InitEvaluate ==
    /\ remote = NoRemote
    /\ pc = "idle"
    /\ args = EmptyDict
    /\ check_mode = FALSE
    /\ before = NoRemote
    /\ out = NoOutcome
    /\ runs = 0
    /\ verdict = FALSE
    /\ update = NoUpdate
    /\ SideOff
    /\ \/ step = "network" /\ cur \in EvalNetworks /\ want \in EvalNetworkData
       \/ /\ step = "extclient"
          /\ \E pair \in EvalExtclientPairs : cur = pair[1] /\ want = pair[2]

\* networks_equal(existing_network, network_data) in manage_network
CompareNetworks ==
    /\ step = "network"
    /\ verdict' = networks_equal(cur, want)
    /\ step' = "networks_equal"
    /\ UNCHANGED <<cur, want, update>>
    /\ UNCHANGED <<remote, pc, args, check_mode, before, out, runs>>
    /\ UNCHANGED sideVars

\* extclients_equal(existing_client, client_data) in manage_extclient
CompareExtclients ==
    /\ step = "extclient"
    /\ verdict' = extclients_equal(cur, want)
    /\ step' = "extclients_equal"
    /\ UNCHANGED <<cur, want, update>>
    /\ UNCHANGED <<remote, pc, args, check_mode, before, out, runs>>
    /\ UNCHANGED sideVars

\* the else branch of either reconciler: update_data is built for the update
BuildUpdate ==
    /\ step \in {"networks_equal", "extclients_equal"}
    /\ ~verdict
    /\ update' = UpdateData(cur, want)
    /\ step' = "update"
    /\ UNCHANGED <<cur, want, verdict>>
    /\ UNCHANGED <<remote, pc, args, check_mode, before, out, runs>>
    /\ UNCHANGED sideVars

NextEvaluate == CompareNetworks \/ CompareExtclients \/ BuildUpdate

SpecEvaluate == InitEvaluate /\ [][NextEvaluate]_vars

\* the fields the two evaluators are to compare
ComparedNetworkFields ==
    {"addressrange", "addressrange6", "defaultextclientdns", "defaultinterface",
     "defaultpostdown", "defaultpostup", "defaultkeepalive", "defaultmtu"}
ComparedExtclientFields == {"dns", "extraallowedips", "enabled", "postup", "postdown"}

Restrict(d, keys) == [f \in DOMAIN d \cap keys |-> d[f]]

\* C14 (network evaluator, empty desired): networks_equal(existing, {}) is true for
\* every existing network; the verdict is the verdict on the comparable fields that
\* desired specifies, and it is the same for every other existing network that agrees
\* with this one on those fields.
C14_EmptyDesired ==
    step = "networks_equal" =>
        LET specified == DOMAIN want \cap ComparedNetworkFields
        IN  /\ networks_equal(cur, EmptyDict)
            /\ specified = {} => verdict
            /\ verdict = networks_equal(cur, Restrict(want, specified))
            /\ \A other \in EvalNetworks :
                  Restrict(other, specified) = Restrict(cur, specified) =>
                      networks_equal(other, want) = verdict

\* C14 witness: a network with an address range compared with data that sets only a
\* field outside the comparable ones.
C14_Witness ==
    /\ step = "networks_equal"
    /\ "addressrange" \in DOMAIN cur /\ "defaultmtu" \in DOMAIN cur
    /\ want = Dict1("islocal", BoolV(FALSE))
    /\ verdict

\* C15 (external-client evaluator, list fields): with extraallowedips a list in the
\* desired data, the verdict is the same for every list with the same elements,
\* whatever their order and however often they are repeated, and an existing client
\* whose list is missing or null gets the verdict of one whose list is empty.
C15_ListsAsSets ==
    (step = "extclients_equal" /\ "extraallowedips" \in DOMAIN want) =>
        /\ \A l \in ListsUpTo(MaxList) :
              Range(l) = Range(want["extraallowedips"].l) =>
                  extclients_equal(cur, Dict1("extraallowedips", ListV(l)) @@ want) = verdict
        /\ DictGet(cur, "extraallowedips", NoneV) = NoneV =>
              extclients_equal(Dict1("extraallowedips", ListV(<<>>)) @@ cur, want) = verdict

\* C15 witness: the list [10.2, 10.1] on the server found equal to a desired list of
\* three entries in another order, one of them repeated.
C15_Witness ==
    /\ step = "extclients_equal"
    /\ "extraallowedips" \in DOMAIN cur
    /\ cur["extraallowedips"] = ListV(<<"10.2.0.0/24", "10.1.0.0/24">>)
    /\ want = Dict1("extraallowedips", ListV(<<"10.1.0.0/24", "10.2.0.0/24", "10.1.0.0/24">>))
    /\ verdict

\* the evaluator that was applied, on other arguments
Evaluator(existing, desired) ==
    IF step = "networks_equal" THEN networks_equal(existing, desired)
    ELSE extclients_equal(existing, desired)

ComparedFields ==
    IF step = "networks_equal" THEN ComparedNetworkFields ELSE ComparedExtclientFields

\* the existing value of a field reads as true
ReadsTrue(existing, field) ==
    /\ field \in DOMAIN existing
    /\ existing[field] \in {StrV("yes"), StrV("true"), BoolV(TRUE), IntV(1)}

\* C16 (boolean coercion): a compared field whose desired value is a boolean matches
\* exactly when the existing value, read as true for "yes", "true", True and 1 and as
\* false for anything else or nothing, is that boolean.  The code does not ensure this:
\* extclients_equal compares booleans with != and nothing else.
C16_BooleanCoercion ==
    step \in {"networks_equal", "extclients_equal"} =>
        \A f \in DOMAIN want \cap ComparedFields :
            want[f].k = "bool" =>
                /\ Evaluator(cur, Dict1(f, want[f])) = (ReadsTrue(cur, f) = (want[f].n = 1))
                /\ verdict => (ReadsTrue(cur, f) = (want[f].n = 1))

\* a field of a dict is the empty string, null or not there
EmptyOrAbsent(d, field) == DictGet(d, field, NoneV) \in {NoneV, StrV("")}

\* C17 (empty string and absent): a compared field that is the empty string on one
\* side, and the empty string, null or missing on the other, makes no difference to
\* the verdict of either evaluator: the verdict is the one the other fields give.
C17_EmptyStringAbsent ==
    step \in {"networks_equal", "extclients_equal"} =>
        \A f \in ComparedFields \ {"extraallowedips"} :
            ( /\ EmptyOrAbsent(cur, f) /\ EmptyOrAbsent(want, f)
              /\ StrV("") \in {DictGet(cur, f, NoneV), DictGet(want, f, NoneV)} ) =>
                /\ verdict = Evaluator(cur, Without(want, f))
                /\ Evaluator(cur, Restrict(want, {f}))

\* C17 witness: a client whose dns is null found equal to data asking for dns "".
C17_Witness ==
    /\ step = "extclients_equal"
    /\ "dns" \in DOMAIN cur /\ cur["dns"] = NoneV
    /\ want = Dict1("dns", StrV(""))
    /\ verdict

\* C18 (network evaluator, field missing from existing): a comparable field that
\* desired specifies and the existing network lacks does not count if it is neither
\* defaultpostup nor defaultpostdown, the verdict being the one the other fields give;
\* if it is one of the two, the verdict is the one of an existing network holding the
\* empty string there.
C18_MissingExistingField ==
    step = "networks_equal" =>
        \A f \in (DOMAIN want \cap ComparedNetworkFields) \ DOMAIN cur :
            IF f \in {"defaultpostup", "defaultpostdown"}
            THEN verdict = networks_equal(Dict1(f, StrV("")) @@ cur, want)
            ELSE verdict = networks_equal(cur, Without(want, f))

\* C18 witness: no defaultpostup and no addressrange on the server, both asked for,
\* and the networks differ, by the default of defaultpostup alone.
C18_Witness ==
    /\ step = "networks_equal"
    /\ DOMAIN cur \cap {"defaultpostup", "addressrange"} = {}
    /\ {"defaultpostup", "addressrange"} \subseteq DOMAIN want
    /\ want["defaultpostup"] = StrV("up")
    /\ "defaultmtu" \notin DOMAIN want
    /\ ~verdict

\* C20 (merge on update): once update_data is built its keys are those of the existing
\* record and those of the desired data; a key desired specifies has the desired value,
\* any other the existing value, server-assigned fields among them; the existing record
\* and the desired data are what they were.
C20_MergeOnUpdate ==
    step = "update" =>
        /\ DOMAIN update.update_data = DOMAIN cur \cup DOMAIN want
        /\ \A f \in DOMAIN want : update.update_data[f] = want[f]
        /\ \A f \in DOMAIN cur \ DOMAIN want : update.update_data[f] = cur[f]
        /\ update.existing = cur
        /\ update.desired = want

\* C20 witness: a client with a server-assigned address and dns 1.1.1.1, updated with
\* data that empties dns and disables it.
C20_Witness ==
    /\ step = "update"
    /\ "address" \in DOMAIN cur
    /\ "dns" \in DOMAIN cur /\ cur["dns"] = StrV("1.1.1.1")
    /\ want = Dict2("dns", StrV(""), "enabled", BoolV(FALSE))
    /\ update.update_data["address"] = StrV("10.0.0.5")
    /\ update.update_data["dns"] = StrV("")

\* ------------------------------------------------------- the transport alone

\* status codes a server may answer with
Statuses == {200, 201, 204, 304, 400, 401, 404, 500, 503}

\* bodies it may send: none, JSON objects with and without a Message, JSON lists,
\* and content that is not JSON
Bodies ==
    { NoBody, TextBody,
      JDict(EmptyDict),
      JDict(Dict1("netid", StrV("net1"))),
      JDict(Dict1("Message", StrV("no result found"))),
      JDict(Dict1("Message", StrV("internal error"))),
      JList(<<>>),
      JList(<<Dict1("clientid", StrV("dev1"))>>) }

InitTransport ==
    /\ remote = NoRemote
    /\ pc = "idle"
    /\ args = EmptyDict
    /\ check_mode = FALSE
    /\ before = NoRemote
    /\ out = NoOutcome
    /\ runs = 0
    /\ EvalOff
    /\ reply \in [endpoint : {<<"networks", "net1">>, <<"extclients", "iot">>},
                  response : [status : Statuses, body : Bodies]]
    /\ returned = Pending
    /\ procs = <<>>

\* _request from the response on
Classify ==
    /\ returned = Pending
    /\ returned' = _request(reply.endpoint, reply.response)
    /\ UNCHANGED <<reply, procs>>
    /\ UNCHANGED <<remote, pc, args, check_mode, before, out, runs>>
    /\ UNCHANGED evalVars

NextTransport == Classify

SpecTransport == InitTransport /\ [][NextTransport]_vars

Success(status) == status \in 200..299

\* the body is a JSON object with a Message
HasMessage(body) == body.t = "dict" /\ "Message" \in DOMAIN body.d

NoResultFound(response) ==
    /\ response.status = 500
    /\ HasMessage(response.body)
    /\ response.body.d["Message"] = StrV("no result found")

\* C21 (classification of responses): _request gives None for status 404 and for 500
\* with Message 'no result found'; True for 204 and for a success status without a
\* body; the decoded JSON for a success status with a JSON body; for any other status
\* it raises, the text holding the Message of the body when there is one; no response
\* with a status outside 2xx, those two apart, is handed back as a value.  The code
\* does not ensure this: raise_for_status() raises from 400 on only.
C21_ResultClassification ==
    returned # Pending =>
        LET status == reply.response.status
            body == reply.response.body
        IN  IF status = 404 \/ NoResultFound(reply.response) THEN returned = RNone
            ELSE IF status = 204 THEN returned = RTrue
            ELSE IF Success(status)
            THEN CASE body = NoBody -> returned = RTrue
                   [] body = TextBody -> returned.kind = "raise"
                   [] OTHER -> returned = RJson(body)
            ELSE /\ returned.kind = "raise"
                 /\ HasMessage(body) =>
                       \E i \in DOMAIN returned.err : returned.err[i] = body.d["Message"].s

\* --------------------------------------------------------- what is reported

\* C22 (result consistency): an invocation that is not a dry run and completes reports
\* changed = true exactly when it issued one mutating call and changed = false exactly
\* when it issued none; with state absent it reports no resource, after a deletion as
\* when there was nothing to delete; a present-state invocation that changes nothing
\* reports the resource its lookup fetched.
C22_ResultConsistency ==
    (Done /\ ~check_mode /\ ~out.failed) =>
        /\ out.changed <=> Len(Mutating(out.calls)) = 1
        /\ ~out.changed <=> Len(Mutating(out.calls)) = 0
        /\ State = "absent" => out.resource = RNone
        /\ (State = "present" /\ ~out.changed) =>
              /\ ExistsIn(before)
              /\ out.resource = RJson(JDict(StoredIn(before)))

\* C22 witness: a network has been deleted, and no resource is reported.
C22_Witness ==
    /\ Done /\ ~check_mode /\ ~out.failed
    /\ ResourceType = "network" /\ State = "absent" /\ ExistsIn(before)
    /\ out.changed /\ Len(Mutating(out.calls)) = 1
    /\ out.resource = RNone

\* ------------------------------------------- two invocations at the same time
\* Each module process is main() with a master key and without check mode; its
\* transport calls are the steps, and between two of them the other process may act.

ConcurrentEnv == Healthy("404")

\* an invocation about to issue its first call, on what the server holds now
Fresh(rem) == [remote |-> rem, calls |-> <<>>]

\* the result of an earlier call, carried on to what the server holds now
OnRemote(q, rem) == [st |-> [remote |-> rem, calls |-> q.st.calls], r |-> q.r]

\* existing_network = api.get_network(name) / existing_client = api.get_extclient(...)
LookupOf(params, rem) ==
    IF params["resource_type"].s = "network"
    THEN get_network(Fresh(rem), ConcurrentEnv, params["master_key"].s, params["name"].s)
    ELSE get_extclient(Fresh(rem), ConcurrentEnv, params["master_key"].s,
                       params["network"].s, params["name"].s)

\* the reconciler from the result g of its lookup on
Rest(params, g) ==
    IF params["resource_type"].s = "network"
    THEN ReconcileNetwork(FALSE, g, ConcurrentEnv, params["master_key"].s,
                          params["name"].s, params["state"].s, DesiredData(params))
    ELSE ReconcileExtclient(FALSE, g, ConcurrentEnv, params["master_key"].s,
                            params["name"].s, params["network"].s,
                            params["ingress_gateway_id"].s, params["state"].s,
                            DesiredData(params))

\* where a process stands after its lookup g, m being the rest of the reconciler:
\* done if no call follows, else before the node listing or before the mutating call
Position(g, m) ==
    IF Len(m.st.calls) = Len(g.st.calls) THEN "done"
    ELSE IF m.st.calls[Len(g.st.calls) + 1].endpoint[1] = "nodes" THEN "resolve"
    ELSE "mutate"

\* process p has got q from a call and stands at position at
Settle(p, q, at) ==
    /\ procs' = [procs EXCEPT ![p].g = q, ![p].at = at]
    /\ remote' = q.st.remote

\* process p has run its reconciler to the end, m
Finished(p, m) ==
    /\ procs' = [procs EXCEPT ![p].g = [st |-> m.st, r |-> m.result.resource],
                              ![p].at = "done", ![p].failed = m.raised]
    /\ remote' = m.st.remote

LookedUp(p, g) == Settle(p, g, Position(g, Rest(module_params(procs[p].task), g)))

GatewayFound(p, f) == Settle(p, f, IF f.r.kind = "raise" THEN "done" ELSE "create")

SameOthers ==
    /\ UNCHANGED <<pc, args, check_mode, before, out, runs, reply, returned>>
    /\ UNCHANGED evalVars

\* a process looks its resource up
ConcurrentLookup ==
    \E p \in DOMAIN procs :
        /\ procs[p].at = "lookup"
        /\ LookedUp(p, LookupOf(module_params(procs[p].task), remote))
        /\ SameOthers

\* a process lists the nodes to find the gateway
ConcurrentResolve ==
    \E p \in DOMAIN procs :
        /\ procs[p].at = "resolve"
        /\ GatewayFound(p, find_ingress_gateway(OnRemote(procs[p].g, remote).st,
                                                ConcurrentEnv,
                                                module_params(procs[p].task)["master_key"].s,
                                                module_params(procs[p].task)["network"].s))
        /\ SameOthers

\* a process creates its external client through the gateway it found
ConcurrentCreate ==
    \E p \in DOMAIN procs :
        /\ procs[p].at = "create"
        /\ Finished(p, CreateThrough(OnRemote(procs[p].g, remote), ConcurrentEnv,
                                     module_params(procs[p].task)["master_key"].s,
                                     module_params(procs[p].task)["name"].s,
                                     module_params(procs[p].task)["network"].s,
                                     DesiredData(module_params(procs[p].task))))
        /\ SameOthers

\* a process issues the create, update or delete its lookup made it decide on
ConcurrentMutate ==
    \E p \in DOMAIN procs :
        /\ procs[p].at = "mutate"
        /\ Finished(p, Rest(module_params(procs[p].task), OnRemote(procs[p].g, remote)))
        /\ SameOthers

\* tasks that may run side by side: two on net1 setting different options, two on
\* net2, two on client dev1 setting different options, two on client dev2
OnNet2 == Dict1("name", StrV("net2")) @@ NetworkTask @@ MasterKey
OnDev2 == Dict1("name", StrV("dev2")) @@ ExtclientTask @@ MasterKey

ConcurrentTasks ==
    { NetworkTask @@ MasterKey @@ Present @@ Dict1("addressrange", StrV("10.0.1.0/24")),
      NetworkTask @@ MasterKey @@ Present @@ Dict1("defaultmtu", IntV(1280)),
      OnNet2 @@ Present @@ Dict1("defaultmtu", IntV(1280)),
      OnNet2 @@ Absent,
      ExtclientTask @@ MasterKey @@ Present @@ Dict1("dns", StrV("1.1.1.1")),
      ExtclientTask @@ MasterKey @@ Present
          @@ Dict1("extraallowedips", ListV(<<"10.1.0.0/24">>)),
      OnDev2 @@ Present,
      OnDev2 @@ Absent }

Net1Stored ==
    ("netid" :> StrV("net1")) @@ ("addressrange" :> StrV("10.0.0.0/24"))
    @@ ("defaultmtu" :> IntV(1420)) @@ ("islocal" :> BoolV(FALSE))

Dev1Stored ==
    ("clientid" :> StrV("dev1")) @@ ("enabled" :> BoolV(TRUE))
    @@ ("address" :> StrV("10.0.0.5"))

ConcurrentRemotes ==
    { [networks |-> Dict1("net1", Net1Stored) @@ nets,
       extclients |-> Dict1("iot", <<Dev1Stored>> \o more),
       nodes |-> Dict1("iot", <<Node("a", Dict1("isingressgateway", BoolV(TRUE)))>>)] :
        nets \in {EmptyDict, BaseNetworks},
        more \in {<<>>, <<OtherClient>>} }

NotStarted(task) ==
    [task |-> task, at |-> "lookup", failed |-> FALSE, g |-> [st |-> Fresh(NoRemote), r |-> RNone]]

InitConcurrent ==
    /\ remote \in ConcurrentRemotes
    /\ before = remote
    /\ pc = "idle"
    /\ args = EmptyDict
    /\ check_mode = FALSE
    /\ out = NoOutcome
    /\ runs = 0
    /\ EvalOff
    /\ reply = NoReply
    /\ returned = Pending
    /\ \E t1, t2 \in ConcurrentTasks :
          /\ t1 # t2
          /\ procs = <<NotStarted(t1), NotStarted(t2)>>

NextConcurrent == ConcurrentLookup \/ ConcurrentResolve \/ ConcurrentCreate \/ ConcurrentMutate

SpecConcurrent == InitConcurrent /\ [][NextConcurrent]_vars

\* the resource a task names
ResourceOf(task) ==
    <<task["resource_type"].s, task["name"].s,
      IF "network" \in DOMAIN task THEN task["network"].s ELSE "">>

\* the server holds the resource a task names
HeldIn(task, rem) ==
    IF task["resource_type"].s = "network"
    THEN task["name"].s \in DOMAIN rem.networks
    ELSE /\ task["network"].s \in DOMAIN rem.extclients
         /\ \E i \in DOMAIN rem.extclients[task["network"].s] :
               ClientIdOf(rem.extclients[task["network"].s][i]) = task["name"]

OptionsOf(task) == DOMAIN task \cap (network_params \cup extclient_params)

\* the pairs of invocations the claim speaks of: different resources, or the same
\* existing resource with state present and different fields set
Covered(t1, t2, rem) ==
    \/ ResourceOf(t1) # ResourceOf(t2)
    \/ /\ ResourceOf(t1) = ResourceOf(t2)
       /\ HeldIn(t1, rem)
       /\ module_params(t1)["state"].s = "present"
       /\ module_params(t2)["state"].s = "present"
       /\ OptionsOf(t1) \cap OptionsOf(t2) = {}

\* what the server holds after t1 has run to its end and then t2
OneAfterTheOther(t1, t2, rem) ==
    main(t2, FALSE, main(t1, FALSE, rem, ConcurrentEnv).remote, ConcurrentEnv).remote

BothDone == Len(procs) = 2 /\ procs[1].at = "done" /\ procs[2].at = "done"

\* C23 (no locking needed): when two invocations that ran at the same time, on
\* different resources or on the same existing resource with different fields set,
\* are both done, the server holds what it would hold had one run to its end before
\* the other started, in one order or the other.  The code does not ensure this: both
\* read the resource, and the update written last overwrites the one written first.
C23_NoLockingNeeded ==
    (BothDone /\ Covered(procs[1].task, procs[2].task, before)) =>
        \/ remote = OneAfterTheOther(procs[1].task, procs[2].task, before)
        \/ remote = OneAfterTheOther(procs[2].task, procs[1].task, before)

====
